---- MODULE Spec2Model ----
(***************************************************************************)
(* FIFO lot accounting of cpypasta/stock-tracker (portfolio.py).           *)
(*                                                                         *)
(* A Portfolio object keeps `holdings`, a Python dict (insertion ordered)  *)
(* from ticker to the list of its transaction dicts, and rewrites the      *)
(* whole JSON file after every mutation.  Quantities and prices are the    *)
(* integers of small input sets (the code uses floats; rounding is out of  *)
(* the model), an average price is an exact fraction <<num, den>>, and a   *)
(* date is the string the caller passed, modelled as the sequence of its   *)
(* characters and compared the way Python compares str.                    *)
(***************************************************************************)
EXTENDS Integers, Sequences, FiniteSets, TLC

VARIABLES
    holdings,   \* Portfolio.holdings: sequence of [ticker, txs] in dict key order
    file,       \* content of portfolio.json, same shape
    last,       \* the last call made on the Portfolio and what it returned or raised
    procs,      \* the `stock buy` / `stock sell` processes running side by side
    taxFile,    \* content of tax.json
    report      \* what the last tax or report command computed or raised

vars == <<holdings, file, last, procs, taxFile, report>>

\* what the calls on one Portfolio object leave alone
elsewhere == <<procs, taxFile, report>>

----------------------------------------------------------------------------
(* Bounds and input sets *)

MaxTx == 3          \* transactions kept in the log, all tickers together

D0115 == <<"2","0","2","3","-","0","1","-","1","5">>
D0201 == <<"2","0","2","3","-","0","2","-","0","1">>
D120  == <<"2","0","2","3","-","1","-","2","0">>      \* "2023-1-20", not zero padded

Dates == {D0115, D0201, D120}
NoDate == <<>>      \* the argument date=None
Today == D0201      \* datetime.today().strftime('%Y-%m-%d') while the model runs
Quantities == {1, 2}
AnyQuantities == {-1, 0, 1}
BuyPrices == {1, 2}
SellPrices == {3}
TickerArgs == {"a", "A"}
ManyTickerArgs == {"A", "b", "C"}
ReadTickerArgs == {"A", "b"}
Procs == {1, 2}
Types == {"BUY", "SELL"}
ManyPrices == {1}
ManyDates == {D0115, D0201}

----------------------------------------------------------------------------
(* Python primitives used by portfolio.py *)

\* str.upper() on the ticker arguments of the model
upper(s) ==
    CASE s = "a" -> "A"
      [] s = "b" -> "B"
      [] s = "c" -> "C"
      [] OTHER   -> s

DigitChars == <<"0","1","2","3","4","5","6","7","8","9">>

\* ord() of the characters a date string is made of
Ord(c) == IF c = "-" THEN 45 ELSE 47 + (CHOOSE i \in 1..10 : DigitChars[i] = c)

Min(a, b) == IF a <= b THEN a ELSE b

\* Python's str `<`: code points at the first difference, else the shorter one
StrLT(a, b) ==
    LET n == Min(Len(a), Len(b))
        diff == {i \in 1..n : a[i] # b[i]}
    IN  IF diff = {} THEN Len(a) < Len(b)
        ELSE LET k == CHOOSE i \in diff : \A j \in diff : i <= j
             IN  Ord(a[k]) < Ord(b[k])

\* int() of a string of digits
RECURSIVE ToInt(_)
ToInt(ds) ==
    IF ds = <<>> THEN 0
    ELSE 10 * ToInt(SubSeq(ds, 1, Len(ds) - 1)) + (Ord(ds[Len(ds)]) - 48)

IsLeap(y) == (y % 4 = 0 /\ y % 100 # 0) \/ y % 400 = 0

DaysInMonth(y, m) ==
    IF m = 2 THEN (IF IsLeap(y) THEN 29 ELSE 28)
    ELSE IF m \in {4, 6, 9, 11} THEN 30 ELSE 31

\* datetime.strptime(s, '%Y-%m-%d').date() as <<year, month, day>>, or <<>> where
\* it raises ValueError: four digits, then one or two digits each for month
\* and day, the day one the month has
ParseDate(s) ==
    LET dashes == {i \in DOMAIN s : s[i] = "-"}
        d1 == CHOOSE i \in dashes : \A j \in dashes : i <= j
        d2 == CHOOSE i \in dashes : \A j \in dashes : j <= i
        y == ToInt(SubSeq(s, 1, d1 - 1))
        m == ToInt(SubSeq(s, d1 + 1, d2 - 1))
        d == ToInt(SubSeq(s, d2 + 1, Len(s)))
    IN  IF /\ Cardinality(dashes) = 2
           /\ d1 = 5
           /\ d2 - d1 - 1 \in {1, 2}
           /\ Len(s) - d2 \in {1, 2}
           /\ m \in 1..12
           /\ d \in 1..DaysInMonth(y, m)
        THEN <<y, m, d>>
        ELSE <<>>

RECURSIVE DaysBeforeMonth(_, _)
DaysBeforeMonth(y, m) ==
    IF m = 1 THEN 0 ELSE DaysBeforeMonth(y, m - 1) + DaysInMonth(y, m - 1)

\* date.toordinal()
ToOrdinal(ymd) ==
    LET y == ymd[1] - 1
    IN  365 * y + (y \div 4) - (y \div 100) + (y \div 400)
        + DaysBeforeMonth(ymd[1], ymd[2]) + ymd[3]

\* dict operations on the ordered dict {ticker: [tx, ...]}
HasKey(h, t) == \E i \in DOMAIN h : h[i].ticker = t

\* dict.get(t): the list stored under t, the empty list standing for None
Get(h, t) ==
    IF HasKey(h, t) THEN h[CHOOSE i \in DOMAIN h : h[i].ticker = t].txs ELSE <<>>

Keys(h) == [i \in DOMAIN h |-> h[i].ticker]

\* `if ticker in holdings: holdings[ticker].append(tx) else: holdings[ticker] = [tx]`
AppendTx(h, t, tx) ==
    IF HasKey(h, t)
    THEN [i \in DOMAIN h |-> IF h[i].ticker = t
                             THEN [h[i] EXCEPT !.txs = Append(@, tx)]
                             ELSE h[i]]
    ELSE Append(h, [ticker |-> t, txs |-> <<tx>>])

RECURSIVE SumShares(_)
SumShares(s) == IF s = <<>> THEN 0 ELSE Head(s).shares + SumShares(Tail(s))

TxCount(h) == SumShares([i \in DOMAIN h |-> [shares |-> Len(h[i].txs)]])

----------------------------------------------------------------------------
(* Portfolio.get_net_shares *)

RECURSIVE NetOf(_)
NetOf(txs) ==
    IF txs = <<>> THEN 0
    ELSE LET tx == txs[Len(txs)]
             before == NetOf(SubSeq(txs, 1, Len(txs) - 1))
         IN  IF tx.type = "BUY" THEN before + tx.shares ELSE before - tx.shares

get_net_shares(h, ticker) == NetOf(Get(h, upper(ticker)))

----------------------------------------------------------------------------
(* Portfolio.get_remaining_lots *)

\* sorted(txs, key=lambda tx: tx['date']): stable, so each element goes after
\* every element already placed whose key is not greater
RECURSIVE InsertByDate(_, _)
InsertByDate(sorted, tx) ==
    IF sorted = <<>> THEN <<tx>>
    ELSE IF StrLT(tx.date, Head(sorted).date)
         THEN <<tx>> \o sorted
         ELSE <<Head(sorted)>> \o InsertByDate(Tail(sorted), tx)

\* get_remaining_lots without the sort of line 149
UnsortedByDate(txs) == txs

RECURSIVE SortedByDate(_)
SortedByDate(txs) ==
    IF txs = <<>> THEN <<>>
    ELSE InsertByDate(SortedByDate(SubSeq(txs, 1, Len(txs) - 1)), txs[Len(txs)])

\* SellLots with `<` for `<=` at line 171: a lot equal to the outstanding
\* quantity takes the partial branch and stays with 0 shares
RECURSIVE SellLotsStrict(_, _, _)
SellLotsStrict(lots, i, shares_to_sell) ==
    IF i > Len(lots) THEN <<>>
    ELSE LET lot == lots[i]
         IN  IF shares_to_sell <= 0
             THEN <<lot>> \o SellLotsStrict(lots, i + 1, shares_to_sell)
             ELSE IF lot.shares < shares_to_sell
                  THEN SellLotsStrict(lots, i + 1, shares_to_sell - lot.shares)
                  ELSE <<[lot EXCEPT !.shares = @ - shares_to_sell]>>
                       \o SellLotsStrict(lots, i + 1, 0)

\* the inner `for lot in remaining_lots` of a SELL, from lot i on
RECURSIVE SellLots(_, _, _)
SellLots(lots, i, shares_to_sell) ==
    IF i > Len(lots) THEN <<>>
    ELSE LET lot == lots[i]
         IN  IF shares_to_sell <= 0
             THEN <<lot>> \o SellLots(lots, i + 1, shares_to_sell)
             ELSE IF lot.shares <= shares_to_sell
                  THEN SellLots(lots, i + 1, shares_to_sell - lot.shares)
                  ELSE <<[lot EXCEPT !.shares = @ - shares_to_sell]>>
                       \o SellLots(lots, i + 1, 0)

\* SellLots without `shares_to_sell = 0` at line 177: the lots after the
\* partly sold one are charged again
RECURSIVE SellLotsNoReset(_, _, _)
SellLotsNoReset(lots, i, shares_to_sell) ==
    IF i > Len(lots) THEN <<>>
    ELSE LET lot == lots[i]
         IN  IF shares_to_sell <= 0
             THEN <<lot>> \o SellLotsNoReset(lots, i + 1, shares_to_sell)
             ELSE IF lot.shares <= shares_to_sell
                  THEN SellLotsNoReset(lots, i + 1, shares_to_sell - lot.shares)
                  ELSE <<[lot EXCEPT !.shares = @ - shares_to_sell]>>
                       \o SellLotsNoReset(lots, i + 1, shares_to_sell)

\* shares_to_sell when the inner loop of a SELL ends
RECURSIVE SharesLeftToSell(_, _, _)
SharesLeftToSell(lots, i, shares_to_sell) ==
    IF i > Len(lots) THEN shares_to_sell
    ELSE IF shares_to_sell <= 0 THEN SharesLeftToSell(lots, i + 1, shares_to_sell)
    ELSE IF lots[i].shares <= shares_to_sell
         THEN SharesLeftToSell(lots, i + 1, shares_to_sell - lots[i].shares)
         ELSE SharesLeftToSell(lots, i + 1, 0)

\* ApplyTxs whose SELL branch is SellLotsNoReset
RECURSIVE ApplyTxsNoReset(_, _, _)
ApplyTxsNoReset(sorted_txs, i, remaining_lots) ==
    IF i > Len(sorted_txs) THEN remaining_lots
    ELSE LET tx == sorted_txs[i]
         IN  IF tx.type = "BUY"
             THEN ApplyTxsNoReset(sorted_txs, i + 1,
                                  Append(remaining_lots,
                                         [shares |-> tx.shares, price |-> tx.price_paid,
                                          date |-> tx.date]))
             ELSE ApplyTxsNoReset(sorted_txs, i + 1,
                                  SellLotsNoReset(remaining_lots, 1, tx.shares))

\* the outer `for tx in sorted_txs`, from transaction i on
RECURSIVE ApplyTxs(_, _, _)
ApplyTxs(sorted_txs, i, remaining_lots) ==
    IF i > Len(sorted_txs) THEN remaining_lots
    ELSE LET tx == sorted_txs[i]
         IN  IF tx.type = "BUY"
             THEN ApplyTxs(sorted_txs, i + 1,
                           Append(remaining_lots,
                                  [shares |-> tx.shares, price |-> tx.price_paid,
                                   date |-> tx.date]))
             ELSE ApplyTxs(sorted_txs, i + 1, SellLots(remaining_lots, 1, tx.shares))

ResolveLots(txs) == IF txs = <<>> THEN <<>> ELSE ApplyTxs(SortedByDate(txs), 1, <<>>)

\* the positions in sorted_txs of the SELLs whose inner loop ends with
\* shares_to_sell > 0
UnfilledSells(sorted_txs) ==
    {i \in DOMAIN sorted_txs :
        /\ sorted_txs[i].type # "BUY"
        /\ SharesLeftToSell(ApplyTxs(SubSeq(sorted_txs, 1, i - 1), 1, <<>>), 1,
                            sorted_txs[i].shares) > 0}

get_remaining_lots(h, ticker) == ResolveLots(Get(h, upper(ticker)))

----------------------------------------------------------------------------
(* Portfolio.get_portfolio and Portfolio.get_holding *)

RECURSIVE SumCost(_)
SumCost(lots) ==
    IF lots = <<>> THEN 0 ELSE Head(lots).shares * Head(lots).price + SumCost(Tail(lots))

Abs(n) == IF n < 0 THEN -n ELSE n

RECURSIVE GCD(_, _)
GCD(a, b) == IF b = 0 THEN a ELSE GCD(b, a % b)

\* the quotient n / d (d > 0) as a fraction in lowest terms
Quotient(n, d) == LET g == GCD(Abs(n), d) IN <<n \div g, d \div g>>

Zero == <<0, 1>>

\* Optional[Dict]: None is the empty sequence, a dict d is <<d>>
None == <<>>

\* the loop of get_portfolio over holdings.keys(), from key i on
RECURSIVE PortfolioEntries(_, _)
PortfolioEntries(h, i) ==
    IF i > Len(h) THEN <<>>
    ELSE LET remaining_lots == get_remaining_lots(h, h[i].ticker)
             total_shares == SumShares(remaining_lots)
             total_cost == SumCost(remaining_lots)
             avg_price == IF total_shares > 0 THEN Quotient(total_cost, total_shares)
                          ELSE Zero
         IN  IF remaining_lots = <<>>
             THEN PortfolioEntries(h, i + 1)
             ELSE <<[ticker |-> h[i].ticker, shares |-> total_shares,
                     avg_price |-> avg_price]>> \o PortfolioEntries(h, i + 1)

\* an ascending sort reversed afterwards: equal keys come out in reverse order
RECURSIVE InsertBySharesTiesFirst(_, _)
InsertBySharesTiesFirst(sorted, e) ==
    IF sorted = <<>> THEN <<e>>
    ELSE IF e.shares >= Head(sorted).shares
         THEN <<e>> \o sorted
         ELSE <<Head(sorted)>> \o InsertBySharesTiesFirst(Tail(sorted), e)

\* sorted(items, key=shares, reverse=True): stable, equal keys keep their order
RECURSIVE InsertByShares(_, _)
InsertByShares(sorted, e) ==
    IF sorted = <<>> THEN <<e>>
    ELSE IF e.shares > Head(sorted).shares
         THEN <<e>> \o sorted
         ELSE <<Head(sorted)>> \o InsertByShares(Tail(sorted), e)

RECURSIVE SortedByShares(_)
SortedByShares(items) ==
    IF items = <<>> THEN <<>>
    ELSE InsertByShares(SortedByShares(SubSeq(items, 1, Len(items) - 1)),
                        items[Len(items)])

\* the dict returned by get_portfolio, as the sequence of its items
get_portfolio(h) == SortedByShares(PortfolioEntries(h, 1))

RECURSIVE BuyShares(_)
BuyShares(txs) ==
    IF txs = <<>> THEN 0
    ELSE (IF Head(txs).type = "BUY" THEN Head(txs).shares ELSE 0) + BuyShares(Tail(txs))

RECURSIVE BuyCost(_)
BuyCost(txs) ==
    IF txs = <<>> THEN 0
    ELSE (IF Head(txs).type = "BUY" THEN Head(txs).shares * Head(txs).price_paid ELSE 0)
         + BuyCost(Tail(txs))

RECURSIVE SellShares(_)
SellShares(txs) ==
    IF txs = <<>> THEN 0
    ELSE (IF Head(txs).type = "BUY" THEN 0 ELSE Head(txs).shares) + SellShares(Tail(txs))

get_holding(h, ticker) ==
    LET txs == Get(h, upper(ticker))
        total_buy_shares == BuyShares(txs)
        total_buy_cost == BuyCost(txs)
        total_sell_shares == SellShares(txs)
        net_shares == total_buy_shares - total_sell_shares
        avg_price == IF total_buy_shares > 0
                     THEN Quotient(total_buy_cost, total_buy_shares) ELSE Zero
    IN  IF txs = <<>> THEN None
        ELSE IF net_shares <= 0 THEN None
        ELSE <<[shares |-> net_shares, avg_price |-> avg_price]>>

----------------------------------------------------------------------------
(* State machine *)

\* a process that runs no command
Idle == [pc |-> "idle", holdings |-> <<>>, cmd |-> <<>>]

\* dates 366 and 365 days before Today, and a month strptime rejects
D366 == <<"2", "0", "2", "2", "-", "0", "1", "-", "3", "1">>
D365 == <<"2", "0", "2", "2", "-", "0", "2", "-", "0", "1">>
DBad == <<"2", "0", "2", "2", "-", "1", "3", "-", "0", "1">>
TaxDates == {D366, D365, DBad}

MaxTaxTx == 2
TaxQuantities == {1}
TaxPrices == {1, 3}
Quotes == {<<>>, <<2>>}
ShortRates == {24}
LongRates == {15}
StateRates == {5}
Gains == {1000, 3}

\* ---- tax_config.py ----
TaxKeys == {"short_term_federal", "long_term_federal", "state", "nii"}

\* the dict {'short_term_federal': stf, 'long_term_federal': ltf, 'state': st,
\* 'nii': nii} restricted to `keys`
TaxDict(keys, stf, ltf, st, nii) ==
    [k \in keys |-> CASE k = "short_term_federal" -> stf
                     [] k = "long_term_federal" -> ltf
                     [] k = "state" -> st
                     [] OTHER -> nii]

\* tax.json does not exist
MissingFile == [kind |-> "missing", content |-> TaxDict({}, 0, 0, 0, FALSE)]

\* tax.json exists and json.load raises JSONDecodeError
InvalidFile == [kind |-> "invalid", content |-> TaxDict({}, 0, 0, 0, FALSE)]

\* tax.json holds the JSON object `content`
JsonFile(content) == [kind |-> "dict", content |-> content]

get_default_config == TaxDict(TaxKeys, 0, 0, 0, FALSE)

\* the states of tax.json before the first command: absent, not JSON, a full
\* object, and objects that lack keys
TaxFiles ==
    {MissingFile, InvalidFile,
     JsonFile(TaxDict(TaxKeys, 24, 15, 5, FALSE)),
     JsonFile(TaxDict({"state"}, 24, 15, 5, FALSE)),
     JsonFile(TaxDict(TaxKeys \ {"nii"}, 24, 15, 5, FALSE))}

\* what json.load returns is the config, whatever keys it has
load_config(f) == IF f.kind = "dict" THEN f.content ELSE get_default_config

\* dict.get(key, default)
DictGet(d, key, default) == IF key \in DOMAIN d THEN d[key] ELSE default

get_short_term_federal_rate(config) == DictGet(config, "short_term_federal", 0)
get_long_term_federal_rate(config) == DictGet(config, "long_term_federal", 0)
get_state_rate(config) == DictGet(config, "state", 0)
has_nii(config) == DictGet(config, "nii", FALSE)

\* 0.038 as thousandths
NiiPerMille == 38

\* calculate_short_term_tax_on_gains charging the NII tax whatever has_nii says
calculate_short_term_tax_on_gains_nii_always(config, gains) ==
    LET federal_rate == get_short_term_federal_rate(config)
        federal_tax == gains * federal_rate * 10
        state_tax == gains * get_state_rate(config) * 10
        nii_tax == gains * NiiPerMille
    IN  [federal |-> federal_tax, state |-> state_tax, nii |-> nii_tax,
         total |-> federal_tax + state_tax + nii_tax,
         rate_type |-> "short-term", federal_rate_used |-> federal_rate]

\* gains are whole dollars, rates whole percents; the amounts of the breakdown
\* are in thousandths of a dollar: gains * (rate / 100) is gains * rate * 10
\* thousandths
calculate_short_term_tax_on_gains(config, gains) ==
    LET federal_rate == get_short_term_federal_rate(config)
        federal_tax == gains * federal_rate * 10
        state_tax == gains * get_state_rate(config) * 10
        nii_tax == IF has_nii(config) THEN gains * NiiPerMille ELSE 0
    IN  [federal |-> federal_tax, state |-> state_tax, nii |-> nii_tax,
         total |-> federal_tax + state_tax + nii_tax,
         rate_type |-> "short-term", federal_rate_used |-> federal_rate]

calculate_long_term_tax_on_gains(config, gains) ==
    LET federal_rate == get_long_term_federal_rate(config)
        federal_tax == gains * federal_rate * 10
        state_tax == gains * get_state_rate(config) * 10
        nii_tax == IF has_nii(config) THEN gains * NiiPerMille ELSE 0
    IN  [federal |-> federal_tax, state |-> state_tax, nii |-> nii_tax,
         total |-> federal_tax + state_tax + nii_tax,
         rate_type |-> "long-term", federal_rate_used |-> federal_rate]

\* the four assignments of set_all on the loaded config
set_all(config, short_term_federal, long_term_federal, state, nii) ==
    [k \in DOMAIN config \cup TaxKeys |->
        IF k \in TaxKeys
        THEN TaxDict(TaxKeys, short_term_federal, long_term_federal, state, nii)[k]
        ELSE config[k]]

\* the first of `keys`, in the order the code subscripts them, that the config
\* lacks: config[key] raises KeyError(key); "" when none is missing
RECURSIVE FirstMissing(_, _)
FirstMissing(config, keys) ==
    IF keys = <<>> THEN ""
    ELSE IF Head(keys) \in DOMAIN config THEN FirstMissing(config, Tail(keys))
    ELSE Head(keys)

\* `report` when no tax or report command has run
NoReport == [op |-> "none", raised |-> "none", key |-> "", value |-> <<>>]

\* `last` when nothing was called; `repeat` says that the call before was the same
\* get_remaining_lots(ticker) and `prev_lots` is what that call returned
NoCall == [op |-> "none", ticker |-> "", shares |-> 0, raised |-> FALSE,
           requested |-> 0, available |-> 0, lots |-> <<>>,
           repeat |-> FALSE, prev_lots |-> <<>>, value |-> <<>>]

\* no portfolio.json and no tax.json yet, no command running
Init ==
    /\ holdings = <<>>
    /\ file = <<>>
    /\ last = NoCall
    /\ procs = [p \in Procs |-> Idle]
    /\ taxFile = MissingFile
    /\ report = NoReport

\* Portfolio.add_stock
AddStock(ticker, shares, price_paid, date, transaction_type) ==
    LET t == upper(ticker)
        tx == [shares |-> shares, price_paid |-> price_paid,
               date |-> IF date = NoDate THEN Today ELSE date,
               type |-> transaction_type]
    IN  /\ TxCount(holdings) < MaxTx
        /\ holdings' = AppendTx(holdings, t, tx)
        /\ file' = holdings'
        /\ last' = [NoCall EXCEPT !.op = "add_stock", !.ticker = t, !.shares = shares]
        /\ UNCHANGED elsewhere

\* remove_stock with the check of lines 47-49 made after the append and save
RemoveStockCheckLate(ticker, shares, price_sold, date) ==
    LET t == upper(ticker)
        current_shares == get_net_shares(holdings, t)
        tx == [shares |-> shares, price_paid |-> price_sold,
               date |-> IF date = NoDate THEN Today ELSE date,
               type |-> "SELL"]
    IN  /\ TxCount(holdings) < MaxTx
        /\ holdings' = AppendTx(holdings, t, tx)
        /\ file' = holdings'
        /\ last' = IF current_shares < shares
                   THEN [NoCall EXCEPT !.op = "remove_stock", !.ticker = t,
                                       !.shares = shares, !.raised = TRUE,
                                       !.requested = shares,
                                       !.available = current_shares]
                   ELSE [NoCall EXCEPT !.op = "remove_stock", !.ticker = t,
                                       !.shares = shares]
        /\ UNCHANGED elsewhere

\* Portfolio.remove_stock
RemoveStock(ticker, shares, price_sold, date) ==
    LET t == upper(ticker)
        current_shares == get_net_shares(holdings, t)
        tx == [shares |-> shares, price_paid |-> price_sold,
               date |-> IF date = NoDate THEN Today ELSE date,
               type |-> "SELL"]
    IN  IF current_shares < shares
        THEN /\ last' = [NoCall EXCEPT !.op = "remove_stock", !.ticker = t,
                                       !.shares = shares, !.raised = TRUE,
                                       !.requested = shares,
                                       !.available = current_shares]
             /\ UNCHANGED <<holdings, file>>
             /\ UNCHANGED elsewhere
        ELSE /\ TxCount(holdings) < MaxTx
             /\ holdings' = AppendTx(holdings, t, tx)
             /\ file' = holdings'
             /\ last' = [NoCall EXCEPT !.op = "remove_stock", !.ticker = t,
                                       !.shares = shares]
             /\ UNCHANGED elsewhere

\* get_remaining_lots as it would behave if line 162 appended the stored
\* transaction dict instead of a new dict: `lot['shares'] -= shares_to_sell`
\* then writes into Portfolio.holdings.  `st` is the stored list, a lot is the
\* index of its transaction in `st`.
RECURSIVE SellAliased(_, _, _, _)
SellAliased(st, lots, i, shares_to_sell) ==
    IF i > Len(lots) THEN [st |-> st, lots |-> <<>>]
    ELSE LET k == lots[i]
         IN  IF shares_to_sell <= 0
             THEN LET r == SellAliased(st, lots, i + 1, shares_to_sell)
                  IN  [r EXCEPT !.lots = <<k>> \o @]
             ELSE IF st[k].shares <= shares_to_sell
                  THEN SellAliased(st, lots, i + 1, shares_to_sell - st[k].shares)
                  ELSE LET r == SellAliased([st EXCEPT ![k].shares = @ - shares_to_sell],
                                            lots, i + 1, 0)
                       IN  [r EXCEPT !.lots = <<k>> \o @]

RECURSIVE ApplyAliased(_, _, _, _)
ApplyAliased(st, order, i, lots) ==
    IF i > Len(order) THEN [st |-> st, lots |-> lots]
    ELSE LET k == order[i].idx
         IN  IF st[k].type = "BUY"
             THEN ApplyAliased(st, order, i + 1, Append(lots, k))
             ELSE LET r == SellAliased(st, lots, 1, st[k].shares)
                  IN  ApplyAliased(r.st, order, i + 1, r.lots)

ResolveAliased(txs) ==
    LET order == SortedByDate([i \in DOMAIN txs |-> [date |-> txs[i].date, idx |-> i]])
        r == ApplyAliased(txs, order, 1, <<>>)
    IN  [st |-> r.st,
         lots |-> [j \in DOMAIN r.lots |->
                     [shares |-> r.st[r.lots[j]].shares,
                      price |-> r.st[r.lots[j]].price_paid,
                      date |-> r.st[r.lots[j]].date]]]

GetRemainingLotsAliased(ticker) ==
    LET t == upper(ticker)
        r == ResolveAliased(Get(holdings, t))
    IN  /\ last' = [NoCall EXCEPT !.op = "get_remaining_lots", !.ticker = t,
                                  !.lots = r.lots,
                                  !.repeat = (last.op = "get_remaining_lots"
                                              /\ last.ticker = t),
                                  !.prev_lots = last.lots]
        /\ holdings' = [i \in DOMAIN holdings |->
                          IF holdings[i].ticker = t
                          THEN [holdings[i] EXCEPT !.txs = r.st]
                          ELSE holdings[i]]
        /\ UNCHANGED file
        /\ UNCHANGED elsewhere

\* The dict objects of one get_remaining_lots call.  Cells 1..Len(txs) of the
\* heap are the stored transaction dicts, the cells after them the lot dicts
\* the call creates; a lot in remaining_lots is the index of its cell.

\* line 162 with the stored dict itself appended as the lot
StoredDictAsLot(heap, k) == [heap |-> heap, ref |-> k]

\* line 162: `{'shares': shares, 'price': price, 'date': date}` is a new dict
NewLotDict(heap, k) ==
    [heap |-> Append(heap, [shares |-> heap[k].shares, price |-> heap[k].price_paid,
                            date |-> heap[k].date]),
     ref |-> Len(heap) + 1]

\* lines 165-180 on the heap: `lot['shares'] -= shares_to_sell` writes the cell
RECURSIVE SellOnHeap(_, _, _, _)
SellOnHeap(heap, lots, i, shares_to_sell) ==
    IF i > Len(lots) THEN [heap |-> heap, lots |-> <<>>]
    ELSE LET k == lots[i]
         IN  IF shares_to_sell <= 0
             THEN LET r == SellOnHeap(heap, lots, i + 1, shares_to_sell)
                  IN  [r EXCEPT !.lots = <<k>> \o @]
             ELSE IF heap[k].shares <= shares_to_sell
                  THEN SellOnHeap(heap, lots, i + 1, shares_to_sell - heap[k].shares)
                  ELSE LET r == SellOnHeap([heap EXCEPT ![k].shares = @ - shares_to_sell],
                                           lots, i + 1, 0)
                       IN  [r EXCEPT !.lots = <<k>> \o @]

\* lines 154-180 on the heap; `order` is the sorted list, each entry with the
\* index of its transaction
RECURSIVE ApplyOnHeap(_, _, _, _)
ApplyOnHeap(heap, order, i, lots) ==
    IF i > Len(order) THEN [heap |-> heap, lots |-> lots]
    ELSE LET k == order[i].idx
         IN  IF heap[k].type = "BUY"
             THEN LET n == NewLotDict(heap, k)
                  IN  ApplyOnHeap(n.heap, order, i + 1, Append(lots, n.ref))
             ELSE LET r == SellOnHeap(heap, lots, 1, heap[k].shares)
                  IN  ApplyOnHeap(r.heap, order, i + 1, r.lots)

\* get_remaining_lots(txs): the returned lots and the stored list afterwards
ResolveOnHeap(txs) ==
    LET order == SortedByDate([i \in DOMAIN txs |-> [date |-> txs[i].date, idx |-> i]])
        r == ApplyOnHeap(txs, order, 1, <<>>)
    IN  [lots |-> [j \in DOMAIN r.lots |-> r.heap[r.lots[j]]],
         st |-> SubSeq(r.heap, 1, Len(txs))]

\* Portfolio.holdings after get_remaining_lots ran on every ticker of `tickers`
StoreAfterResolve(h, tickers) ==
    [i \in DOMAIN h |-> IF h[i].ticker \in tickers
                        THEN [h[i] EXCEPT !.txs = ResolveOnHeap(@).st]
                        ELSE h[i]]

\* a call of Portfolio.get_remaining_lots
GetRemainingLots(ticker) ==
    LET t == upper(ticker)
    IN  /\ last' = [NoCall EXCEPT !.op = "get_remaining_lots", !.ticker = t,
                                  !.lots = ResolveOnHeap(Get(holdings, t)).lots,
                                  !.repeat = (last.op = "get_remaining_lots"
                                              /\ last.ticker = t),
                                  !.prev_lots = last.lots]
        /\ holdings' = StoreAfterResolve(holdings, {t})
        /\ UNCHANGED file
        /\ UNCHANGED elsewhere

\* a call of Portfolio.get_portfolio: get_remaining_lots on every key, line 77
GetPortfolio ==
    /\ last' = [NoCall EXCEPT !.op = "get_portfolio", !.value = get_portfolio(holdings)]
    /\ holdings' = StoreAfterResolve(holdings, {holdings[i].ticker : i \in DOMAIN holdings})
    /\ UNCHANGED file
    /\ UNCHANGED elsewhere

\* a call of Portfolio.get_holding: reads the transactions, assigns to none
GetHolding(ticker) ==
    /\ last' = [NoCall EXCEPT !.op = "get_holding", !.ticker = upper(ticker),
                              !.value = get_holding(holdings, ticker)]
    /\ UNCHANGED <<holdings, file>>
    /\ UNCHANGED elsewhere

\* a call of Portfolio.get_net_shares
GetNetShares(ticker) ==
    /\ last' = [NoCall EXCEPT !.op = "get_net_shares", !.ticker = upper(ticker),
                              !.value = <<get_net_shares(holdings, ticker)>>]
    /\ UNCHANGED <<holdings, file>>
    /\ UNCHANGED elsewhere

-----------------------------------------------------------------------------
(* tax-set, tax-show and the module-level tax functions *)

\* set_tax_rates: a new TaxConfig loads tax.json, set_all assigns and saves
SetTaxRates(short_term_federal, long_term_federal, state, nii) ==
    /\ taxFile' = JsonFile(set_all(load_config(taxFile), short_term_federal,
                                   long_term_federal, state, nii))
    /\ report' = [NoReport EXCEPT !.op = "tax-set"]
    /\ UNCHANGED <<holdings, file, last, procs>>

\* the `tax-show` command: get_tax_rates() and four subscripts of its result
TaxShow ==
    LET config == load_config(taxFile)
        missing == FirstMissing(config, <<"short_term_federal", "long_term_federal",
                                          "state", "nii">>)
    IN  /\ report' = [op |-> "tax-show",
                      raised |-> IF missing = "" THEN "none" ELSE "KeyError",
                      key |-> missing,
                      value |-> <<config>>]
        /\ UNCHANGED <<holdings, file, last, procs, taxFile>>

\* calculate_short_term_tax_on_gains(gains) of the module: a new TaxConfig
CalcShortTerm(gains) ==
    /\ report' = [NoReport EXCEPT
                     !.op = "calculate_short_term_tax_on_gains",
                     !.value = [gains |-> gains, config |-> load_config(taxFile),
                                tax |-> calculate_short_term_tax_on_gains(
                                            load_config(taxFile), gains)]]
    /\ UNCHANGED <<holdings, file, last, procs, taxFile>>

\* calculate_long_term_tax_on_gains(gains) of the module
CalcLongTerm(gains) ==
    /\ report' = [NoReport EXCEPT
                     !.op = "calculate_long_term_tax_on_gains",
                     !.value = [gains |-> gains, config |-> load_config(taxFile),
                                tax |-> calculate_long_term_tax_on_gains(
                                            load_config(taxFile), gains)]]
    /\ UNCHANGED <<holdings, file, last, procs, taxFile>>

-----------------------------------------------------------------------------
(* show_portfolio *)

\* (today - lot_date).days, lot_date being today when strptime raises
HoldingDays(date) ==
    LET parsed == ParseDate(date)
        today == ParseDate(Today)
        lot_date == IF parsed = <<>> THEN today ELSE parsed
    IN  ToOrdinal(today) - ToOrdinal(lot_date)

\* a year and more counts as long-term
IsLongTermFrom365(holding_days) == holding_days >= 365

\* `if holding_days > 365`
IsLongTerm(holding_days) == holding_days > 365

\* the body of `for lot in remaining_lots` with the tax taken on every
\* lot, a loss giving a negative tax
LotAfterTaxAlways(config, lot, current_price) ==
    LET lot_gain == lot.shares * current_price - lot.shares * lot.price
        tax == IF IsLongTerm(HoldingDays(lot.date))
               THEN calculate_long_term_tax_on_gains(config, lot_gain)
               ELSE calculate_short_term_tax_on_gains(config, lot_gain)
    IN  [after_tax_gain |-> lot_gain * 1000 - tax.total,
         short_term_tax |-> IF tax.rate_type = "short-term" THEN tax.total ELSE 0,
         long_term_tax |-> IF tax.rate_type = "long-term" THEN tax.total ELSE 0]

\* the body of `for lot in remaining_lots`: what one lot adds to after_tax_gain,
\* total_short_term_tax and total_long_term_tax, in thousandths of a dollar
LotAfterTax(config, lot, current_price) ==
    LET lot_gain == lot.shares * current_price - lot.shares * lot.price
        tax == IF IsLongTerm(HoldingDays(lot.date))
               THEN calculate_long_term_tax_on_gains(config, lot_gain)
               ELSE calculate_short_term_tax_on_gains(config, lot_gain)
    IN  IF lot_gain > 0
        THEN [after_tax_gain |-> lot_gain * 1000 - tax.total,
              short_term_tax |-> IF tax.rate_type = "short-term" THEN tax.total ELSE 0,
              long_term_tax |-> IF tax.rate_type = "long-term" THEN tax.total ELSE 0]
        ELSE [after_tax_gain |-> lot_gain * 1000, short_term_tax |-> 0,
              long_term_tax |-> 0]

\* the three accumulations a lot makes
AddLot(a, b) ==
    [after_tax_gain |-> a.after_tax_gain + b.after_tax_gain,
     short_term_tax |-> a.short_term_tax + b.short_term_tax,
     long_term_tax |-> a.long_term_tax + b.long_term_tax]

\* the loop `for lot in remaining_lots`, from lot i on
RECURSIVE LotsAfterTax(_, _, _, _)
LotsAfterTax(config, remaining_lots, i, current_price) ==
    IF i > Len(remaining_lots)
    THEN [after_tax_gain |-> 0, short_term_tax |-> 0, long_term_tax |-> 0]
    ELSE AddLot(LotAfterTax(config, remaining_lots[i], current_price),
                LotsAfterTax(config, remaining_lots, i + 1, current_price))

\* get_stock_data found no price
NoData == <<>>

NoTotals == [rows |-> <<>>, total_cost |-> 0, total_value |-> 0,
             total_after_tax_gain |-> 0, total_short_term_tax |-> 0,
             total_long_term_tax |-> 0]

\* one pass of the loop `for ticker, holding in holdings.items()`: the row of the
\* table and what is added to the totals, `h` being the stored log and
\* `quotes[ticker]` what get_stock_data finds, <<price>> or NoData (the row is
\* then dashes, only total_cost grows and the pass ends at `continue`).
\* cost_basis = shares * avg_price is the cost of the open lots.
PortfolioRow(h, item, quotes, config) ==
    LET ticker == item.ticker
        shares == item.shares
        cost_basis == (shares * item.avg_price[1]) \div item.avg_price[2]
        current_price == quotes[ticker][1]
        current_value == shares * current_price
        remaining_lots == get_remaining_lots(h, ticker)
        lots == LotsAfterTax(config, remaining_lots, 1, current_price)
    IN  IF quotes[ticker] = NoData
        THEN [NoTotals EXCEPT
                !.rows = <<[ticker |-> ticker, shares |-> shares, priced |-> FALSE,
                            current_price |-> 0, lots |-> <<>>, gain_loss |-> 0,
                            after_tax_gain |-> 0]>>,
                !.total_cost = cost_basis]
        ELSE [rows |-> <<[ticker |-> ticker, shares |-> shares, priced |-> TRUE,
                          current_price |-> current_price, lots |-> remaining_lots,
                          gain_loss |-> current_value - cost_basis,
                          after_tax_gain |-> lots.after_tax_gain]>>,
              total_cost |-> cost_basis,
              total_value |-> current_value,
              total_after_tax_gain |-> lots.after_tax_gain,
              total_short_term_tax |-> lots.short_term_tax,
              total_long_term_tax |-> lots.long_term_tax]

\* the accumulations of one pass
AddRow(a, b) ==
    [rows |-> a.rows \o b.rows,
     total_cost |-> a.total_cost + b.total_cost,
     total_value |-> a.total_value + b.total_value,
     total_after_tax_gain |-> a.total_after_tax_gain + b.total_after_tax_gain,
     total_short_term_tax |-> a.total_short_term_tax + b.total_short_term_tax,
     total_long_term_tax |-> a.total_long_term_tax + b.total_long_term_tax]

\* the loop over holdings.items(), from item i on
RECURSIVE PortfolioRows(_, _, _, _, _)
PortfolioRows(h, items, i, quotes, config) ==
    IF i > Len(items) THEN NoTotals
    ELSE AddRow(PortfolioRow(h, items[i], quotes, config),
                PortfolioRows(h, items, i + 1, quotes, config))

\* the tax summary, lines 259-279: rates in tenths of a percent (nii_rate 3.8 is
\* 38), amounts as fractions of thousandths of a dollar
TaxBreakdown(config, total_short_term_tax, total_long_term_tax) ==
    LET nii_rate == IF config["nii"] THEN NiiPerMille ELSE 0
        stf == config["short_term_federal"] * 10
        ltf == config["long_term_federal"] * 10
        st == config["state"] * 10
        st_total_pct == stf + st + nii_rate
        lt_total_pct == ltf + st + nii_rate
        Share(total, rate, pct) == IF pct > 0 THEN Quotient(total * rate, pct) ELSE Zero
    IN  [st_federal_amount |-> Share(total_short_term_tax, stf, st_total_pct),
         st_state_amount |-> Share(total_short_term_tax, st, st_total_pct),
         st_nii_amount |-> Share(total_short_term_tax, nii_rate, st_total_pct),
         lt_federal_amount |-> Share(total_long_term_tax, ltf, lt_total_pct),
         lt_state_amount |-> Share(total_long_term_tax, st, lt_total_pct),
         lt_nii_amount |-> Share(total_long_term_tax, nii_rate, lt_total_pct),
         total_taxes |-> total_short_term_tax + total_long_term_tax]

\* the `port` command.  An empty portfolio returns at line 144.  When no ticker
\* got a price, `arrow` and `color` were never assigned and line 249 raises
\* UnboundLocalError; otherwise the tax summary subscripts the config.
ShowPortfolio(quotes) ==
    LET items == get_portfolio(file)
        config == load_config(taxFile)
        totals == PortfolioRows(file, items, 1, quotes, config)
        missing == FirstMissing(config, <<"nii", "short_term_federal", "state",
                                          "long_term_federal">>)
        unbound == \A i \in DOMAIN totals.rows : ~totals.rows[i].priced
        raised == IF items = <<>> THEN "none"
                  ELSE IF unbound THEN "UnboundLocalError"
                  ELSE IF missing # "" THEN "KeyError"
                  ELSE "none"
    IN  /\ report' = [op |-> "port",
                      raised |-> raised,
                      key |-> IF raised = "KeyError" THEN missing
                              ELSE IF raised = "UnboundLocalError" THEN "arrow"
                              ELSE "",
                      value |-> [empty |-> items = <<>>,
                                 totals |-> IF items = <<>> THEN NoTotals ELSE totals,
                                 config |-> config,
                                 tax_table |->
                                    IF items # <<>> /\ raised = "none"
                                    THEN <<TaxBreakdown(config, totals.total_short_term_tax,
                                                        totals.total_long_term_tax)>>
                                    ELSE <<>>]]
        /\ UNCHANGED <<holdings, file, last, procs, taxFile>>

Next ==
    \/ \E t \in TickerArgs, s \in Quantities, p \in BuyPrices, d \in Dates :
           AddStock(t, s, p, d, "BUY")
    \/ \E t \in TickerArgs, s \in Quantities, p \in SellPrices, d \in Dates :
           RemoveStock(t, s, p, d)
    \/ \E t \in TickerArgs : GetRemainingLots(t)

Spec == Init /\ [][Next]_vars

\* the same calls on a portfolio of several tickers
NextMany ==
    \/ \E t \in ManyTickerArgs, s \in Quantities, p \in ManyPrices, d \in ManyDates :
           AddStock(t, s, p, d, "BUY")
    \/ \E t \in ManyTickerArgs, s \in Quantities, p \in SellPrices, d \in ManyDates :
           RemoveStock(t, s, p, d)

SpecMany == Init /\ [][NextMany]_vars

\* the methods of Portfolio called with any quantity and any transaction type
NextAnyArgs ==
    \/ \E t \in TickerArgs, s \in AnyQuantities, p \in ManyPrices, d \in ManyDates,
          ty \in Types :
           AddStock(t, s, p, d, ty)
    \/ \E t \in TickerArgs, s \in AnyQuantities, p \in SellPrices, d \in ManyDates :
           RemoveStock(t, s, p, d)
    \/ \E t \in TickerArgs : GetRemainingLots(t)

SpecAnyArgs == Init /\ [][NextAnyArgs]_vars

\* add_stock called with either transaction type, quantities positive
NextAnyType ==
    \/ \E t \in TickerArgs, s \in Quantities, p \in ManyPrices, d \in ManyDates,
          ty \in Types :
           AddStock(t, s, p, d, ty)
    \/ \E t \in TickerArgs, s \in Quantities, p \in SellPrices, d \in ManyDates :
           RemoveStock(t, s, p, d)
    \/ \E t \in TickerArgs : GetRemainingLots(t)

SpecAnyType == Init /\ [][NextAnyType]_vars

\* every buy and sell entered without a date, all on the same day
NextToday ==
    \/ \E t \in TickerArgs, s \in Quantities, p \in BuyPrices :
           AddStock(t, s, p, NoDate, "BUY")
    \/ \E t \in TickerArgs, s \in Quantities, p \in SellPrices :
           RemoveStock(t, s, p, NoDate)
    \/ \E t \in TickerArgs : GetRemainingLots(t)

SpecToday == Init /\ [][NextToday]_vars

\* buys, sells and the four read operations on a portfolio of two tickers
NextReads ==
    \/ \E t \in ReadTickerArgs, s \in Quantities, p \in ManyPrices, d \in ManyDates :
           AddStock(t, s, p, d, "BUY")
    \/ \E t \in ReadTickerArgs, s \in Quantities, p \in SellPrices, d \in ManyDates :
           RemoveStock(t, s, p, d)
    \/ \E t \in ReadTickerArgs : GetRemainingLots(t)
    \/ GetPortfolio
    \/ \E t \in ReadTickerArgs : GetHolding(t)
    \/ \E t \in ReadTickerArgs : GetNetShares(t)

SpecReads == Init /\ [][NextReads]_vars

\* one ticker bought 365 days ago, 366 days ago or on a date strptime rejects,
\* at a price below or above the quote, with tax.json in any of its states
InitTax ==
    /\ holdings = <<>>
    /\ file = <<>>
    /\ last = NoCall
    /\ procs = [p \in Procs |-> Idle]
    /\ taxFile \in TaxFiles
    /\ report = NoReport

NextTax ==
    \/ /\ TxCount(holdings) < MaxTaxTx
       /\ \E s \in TaxQuantities, p \in TaxPrices, d \in TaxDates :
              AddStock("A", s, p, d, "BUY")
    \/ /\ TxCount(holdings) < MaxTaxTx
       /\ \E p \in SellPrices : RemoveStock("A", 1, p, NoDate)
    \/ \E stf \in ShortRates, ltf \in LongRates, st \in StateRates, nii \in BOOLEAN :
           SetTaxRates(stf, ltf, st, nii)
    \/ TaxShow
    \/ \E g \in Gains : CalcShortTerm(g)
    \/ \E g \in Gains : CalcLongTerm(g)
    \/ \E quotes \in [{"A"} -> Quotes] : ShowPortfolio(quotes)

SpecTax == InitTax /\ [][NextTax]_vars

-----------------------------------------------------------------------------
(* Two invocations of `buy` or `sell` at the same time.  Each is a process of
   its own with its own Portfolio object: __init__ loads the file, add_stock or
   remove_stock appends to the loaded dict, save_portfolio rewrites the file.
   The write of the file is taken as one step. *)

RaceOps == {"buy", "sell"}
RaceTickerArgs == {"A", "b"}

\* the log when the invocations start: empty, or one earlier buy of A
RaceLogs ==
    {<<>>,
     <<[ticker |-> "A",
        txs |-> <<[shares |-> 2, price_paid |-> 2, date |-> Today, type |-> "BUY"]>>]>>}

\* the transaction a command appends
CmdTx(cmd) ==
    [shares |-> cmd.shares, price_paid |-> cmd.price,
     date |-> IF cmd.date = NoDate THEN Today ELSE cmd.date,
     type |-> IF cmd.op = "buy" THEN "BUY" ELSE "SELL"]

\* Portfolio(): load_portfolio reads the whole file
LoadPortfolio(p, op, ticker, shares, price) ==
    /\ procs[p].pc = "idle"
    /\ procs' = [procs EXCEPT ![p] = [pc |-> "loaded", holdings |-> file,
                                      cmd |-> [op |-> op, ticker |-> ticker,
                                               shares |-> shares, price |-> price,
                                               date |-> NoDate]]]
    /\ UNCHANGED <<holdings, file, last, taxFile, report>>

\* add_stock or remove_stock up to the call of save_portfolio: the append to
\* the dict this process loaded, or the ValueError of remove_stock
AppendLoaded(p) ==
    LET cmd == procs[p].cmd
        t == upper(cmd.ticker)
    IN  /\ procs[p].pc = "loaded"
        /\ procs' = [procs EXCEPT ![p] =
                        IF cmd.op = "sell" /\ get_net_shares(procs[p].holdings, t) < cmd.shares
                        THEN [@ EXCEPT !.pc = "failed"]
                        ELSE [@ EXCEPT !.pc = "appended",
                                       !.holdings = AppendTx(@, t, CmdTx(cmd))]]
        /\ UNCHANGED <<holdings, file, last, taxFile, report>>

\* save_portfolio: the file becomes the dict of this process; the command
\* has then returned
SavePortfolio(p) ==
    /\ procs[p].pc = "appended"
    /\ file' = procs[p].holdings
    /\ procs' = [procs EXCEPT ![p].pc = "done"]
    /\ UNCHANGED <<holdings, last, taxFile, report>>

InitRace ==
    /\ file \in RaceLogs
    /\ holdings = file
    /\ last = NoCall
    /\ procs = [p \in Procs |-> Idle]
    /\ taxFile = MissingFile
    /\ report = NoReport

NextRace ==
    \E p \in Procs :
        \/ \E op \in RaceOps, t \in RaceTickerArgs, s \in Quantities, pr \in ManyPrices :
               LoadPortfolio(p, op, t, s, pr)
        \/ AppendLoaded(p)
        \/ SavePortfolio(p)

SpecRace == InitRace /\ [][NextRace]_vars

----------------------------------------------------------------------------
(* Vocabulary of the properties *)

TxsOf(t) == Get(holdings, t)
LotsOf(t) == get_remaining_lots(holdings, t)
Tickers == {holdings[i].ticker : i \in DOMAIN holdings}
KeyIndex(t) == CHOOSE i \in DOMAIN holdings : holdings[i].ticker = t
Reverse(s) == [i \in DOMAIN s |-> s[Len(s) + 1 - i]]
Occurrences(x, s) == Cardinality({i \in DOMAIN s : s[i] = x})
SameBag(s1, s2) ==
    /\ Len(s1) = Len(s2)
    /\ \A i \in DOMAIN s1 : Occurrences(s1[i], s1) = Occurrences(s1[i], s2)

\* sum of f over the indices in S
RECURSIVE SumOver(_, _)
SumOver(txs, S) ==
    IF S = {} THEN 0
    ELSE LET i == CHOOSE j \in S : TRUE IN txs[i].shares + SumOver(txs, S \ {i})

BuyIdx(txs) == {i \in DOMAIN txs : txs[i].type = "BUY"}
SellIdx(txs) == {i \in DOMAIN txs : txs[i].type = "SELL"}

\* every SELL, together with the SELLs dated no later, is covered by the BUYs
\* dated strictly earlier
Covered(txs) ==
    \A i \in SellIdx(txs) :
        SumOver(txs, {j \in BuyIdx(txs) : StrLT(txs[j].date, txs[i].date)})
          >= SumOver(txs, {j \in SellIdx(txs) : ~StrLT(txs[i].date, txs[j].date)})

\* the BUYs in date order, equal dates in insertion order: the k-th is the one
\* with k - 1 BUYs before it
BuyRank(txs, i) ==
    1 + Cardinality({j \in BuyIdx(txs) :
                        \/ StrLT(txs[j].date, txs[i].date)
                        \/ (txs[j].date = txs[i].date /\ j < i)})
BuysInDateOrder(txs) ==
    [k \in 1..Cardinality(BuyIdx(txs)) |->
        txs[CHOOSE i \in BuyIdx(txs) : BuyRank(txs, i) = k]]

\* what is left of the k-th BUY once `sold` shares are taken from the oldest
LeftOf(buys, k, sold) ==
    LET upto == SumOver(buys, 1..k)
    IN  IF upto <= sold THEN 0
        ELSE IF upto - buys[k].shares >= sold THEN buys[k].shares
        ELSE upto - sold

RECURSIVE FifoLots(_, _, _)
FifoLots(buys, k, sold) ==
    IF k > Len(buys) THEN <<>>
    ELSE (IF LeftOf(buys, k, sold) = 0 THEN <<>>
          ELSE <<[shares |-> LeftOf(buys, k, sold), price |-> buys[k].price_paid,
                  date |-> buys[k].date]>>)
         \o FifoLots(buys, k + 1, sold)

DistinctDates(txs) == \A i, j \in DOMAIN txs : i # j => txs[i].date # txs[j].date
ZeroPadded(txs) == \A i \in DOMAIN txs : Len(txs[i].date) = 10
Chronological(txs) ==
    \A i, j \in DOMAIN txs : i < j => ~StrLT(txs[j].date, txs[i].date)

PortfolioTickers == {get_portfolio(holdings)[i].ticker : i \in DOMAIN get_portfolio(holdings)}
PortfolioEntry(t) ==
    get_portfolio(holdings)[CHOOSE i \in DOMAIN get_portfolio(holdings) :
                                get_portfolio(holdings)[i].ticker = t]

----------------------------------------------------------------------------
(* Properties *)

\* C1: after any buys and accepted sells, the shares of the remaining lots of
\* every symbol add up to its net shares (buys minus sells over the log).
C1_LotsSumToNet ==
    \A t \in Tickers : SumShares(LotsOf(t)) = get_net_shares(holdings, t)

\* C2: a remove_stock asking for more than the net shares raises the error
\* carrying the requested and the available quantity, and neither the holdings
\* in memory nor the file change.
C2_OversellRejected ==
    [][(last'.op = "remove_stock"
        /\ last'.shares > get_net_shares(holdings, last'.ticker))
       => /\ last'.raised
          /\ last'.requested = last'.shares
          /\ last'.available = get_net_shares(holdings, last'.ticker)
          /\ holdings' = holdings
          /\ file' = file]_vars

C2_Witness ==
    /\ last.op = "remove_stock"
    /\ last.raised
    /\ last.available > 0
    /\ last.requested > last.available
    /\ file = holdings

\* C3: the persisted log of no symbol has a negative net quantity (BUY shares
\* minus SELL shares), whatever add_stock and remove_stock calls were made.
C3_NetNeverNegative ==
    \A i \in DOMAIN file : NetOf(file[i].txs) >= 0

C5_EntryOrderIndependent ==
    \A t \in Tickers :
        (Chronological(TxsOf(t)) /\ ZeroPadded(TxsOf(t)))
        => SameBag(ResolveLots(Reverse(TxsOf(t))), ResolveLots(TxsOf(t)))

\* C5 amended: when no two transactions of the symbol carry the same date, the
\* log and the same transactions entered in reverse order give the same lots
\* in the same order.
C5_EntryOrderIndependentDistinctDates ==
    \A t \in Tickers :
        DistinctDates(TxsOf(t))
        => ResolveLots(Reverse(TxsOf(t))) = ResolveLots(TxsOf(t))

\* a chronological log of distinct dates whose sell leaves a reduced lot
C5_Witness ==
    \E t \in Tickers :
        /\ DistinctDates(TxsOf(t))
        /\ Chronological(TxsOf(t))
        /\ Len(TxsOf(t)) = MaxTx
        /\ SellIdx(TxsOf(t)) # {}
        /\ LotsOf(t) # <<>>
        /\ SumShares(LotsOf(t)) < SumOver(TxsOf(t), BuyIdx(TxsOf(t)))
        /\ Reverse(TxsOf(t)) # TxsOf(t)

\* C6: get_remaining_lots called again on the same ticker, nothing added or
\* removed in between, returns the same lots in the same order.
C6_RepeatedCallSameLots ==
    last.repeat => last.lots = last.prev_lots

\* a repeated call on a log whose sell consumed a part of a lot
C6_Witness ==
    /\ last.op = "get_remaining_lots"
    /\ last.repeat
    /\ last.lots # <<>>
    /\ SellIdx(TxsOf(last.ticker)) # {}
    /\ SumShares(last.lots) < SumOver(TxsOf(last.ticker), BuyIdx(TxsOf(last.ticker)))

\* C7: once an accepted sell has brought the net shares of a symbol to 0, the
\* symbol is not a key of get_portfolio().
C7_SoldOutAbsent ==
    \A t \in Tickers :
        (last.op = "remove_stock" /\ ~last.raised /\ last.ticker = t
         /\ get_net_shares(holdings, t) = 0)
        => t \notin PortfolioTickers

\* C8: a transaction of quantity zero or less is refused, so every transaction
\* in the log has quantity > 0.
C8_QuantitiesPositive ==
    \A i \in DOMAIN file : \A j \in DOMAIN file[i].txs : file[i].txs[j].shares > 0

\* C9: get_holding and get_portfolio report the same position of every symbol
\* with transactions: the shares of the remaining FIFO lots, their average
\* price, and None exactly when the symbol is not in the portfolio.
C9_ViewsAgree ==
    \A t \in Tickers :
        LET lots == LotsOf(t)
            position == [shares |-> SumShares(lots),
                         avg_price |-> Quotient(SumCost(lots), SumShares(lots))]
        IN  /\ (get_holding(holdings, t) = None) <=> (t \notin PortfolioTickers)
            /\ t \in PortfolioTickers =>
                   /\ PortfolioEntry(t).shares = position.shares
                   /\ PortfolioEntry(t).avg_price = position.avg_price
                   /\ get_holding(holdings, t) = <<position>>

\* C10: get_portfolio lists exactly the symbols with remaining lots, by shares
\* descending, symbols of equal shares in the order their keys entered the log.
C10_PortfolioOrder ==
    LET P == get_portfolio(holdings)
    IN  /\ PortfolioTickers = {t \in Tickers : LotsOf(t) # <<>>}
        /\ Len(P) = Cardinality(PortfolioTickers)
        /\ \A i, j \in DOMAIN P :
             i < j => \/ P[i].shares > P[j].shares
                      \/ /\ P[i].shares = P[j].shares
                         /\ KeyIndex(P[i].ticker) < KeyIndex(P[j].ticker)

\* three symbols, two of equal shares, the largest inserted last
C10_Witness ==
    LET P == get_portfolio(holdings)
    IN  /\ Len(P) = 3
        /\ P[1].shares > P[2].shares
        /\ P[2].shares = P[3].shares
        /\ KeyIndex(P[1].ticker) = 3

\* C14: when a SELL is still outstanding after all open lots were scanned,
\* get_remaining_lots reports an error instead of returning lots.
C14_UnfilledSellReported ==
    (last.op = "get_remaining_lots"
     /\ UnfilledSells(SortedByDate(TxsOf(last.ticker))) # {})
    => last.raised

\* the calendar day of a stored date
CalendarDay(date) == ToOrdinal(ParseDate(date))

\* C15: get_remaining_lots applies the transactions in ascending calendar-date
\* order, equal dates in insertion order, however they were stored.
C15_AppliedInCalendarOrder ==
    \A t \in Tickers :
        LET txs == TxsOf(t)
            order == SortedByDate([i \in DOMAIN txs |-> [date |-> txs[i].date, idx |-> i]])
        IN  \A a, b \in DOMAIN order :
                a < b => \/ CalendarDay(order[a].date) < CalendarDay(order[b].date)
                         \/ /\ CalendarDay(order[a].date) = CalendarDay(order[b].date)
                            /\ order[a].idx < order[b].idx

ReadOps == {"get_remaining_lots", "get_portfolio", "get_holding", "get_net_shares"}

\* C16: get_remaining_lots, get_portfolio, get_holding and get_net_shares leave
\* every stored transaction and the file as they were, also when a sell has
\* consumed a part of a lot.
C16_ReadsLeaveStore ==
    [][last'.op \in ReadOps => (holdings' = holdings /\ file' = file)]_vars

\* get_portfolio has run on a log in which a sell left a reduced lot
C16_Witness ==
    /\ last.op = "get_portfolio"
    /\ last.value # <<>>
    /\ \E t \in Tickers :
          /\ SellIdx(TxsOf(t)) # {}
          /\ LotsOf(t) # <<>>
          /\ LotsOf(t)[1].shares < BuysInDateOrder(TxsOf(t))[1 + Cardinality(BuyIdx(TxsOf(t)))
                                                             - Len(LotsOf(t))].shares
    /\ file = holdings

\* the lots on the heap are the lots ResolveLots computes
ResolversAgree ==
    \A t \in Tickers : ResolveOnHeap(TxsOf(t)).lots = ResolveLots(TxsOf(t))

C19_ListedTickersHeld ==
    \A i \in DOMAIN Keys(file) :
        \E j \in DOMAIN get_portfolio(file) : get_portfolio(file)[j].ticker = Keys(file)[i]

-----------------------------------------------------------------------------
(* Taxes *)

RECURSIVE SumFn(_, _)
SumFn(f, S) ==
    IF S = {} THEN 0
    ELSE LET x == CHOOSE y \in S : TRUE IN f[x] + SumFn(f, S \ {x})

\* the rows of the last `port` report that got a price
PricedRows ==
    IF report.op # "port" THEN <<>>
    ELSE SelectSeq(report.value.totals.rows, LAMBDA r : r.priced)

\* the gain of each lot of a row, in dollars
GainsOf(row) ==
    [k \in DOMAIN row.lots |->
        row.lots[k].shares * row.current_price - row.lots[k].shares * row.lots[k].price]
Winners(row) == {k \in DOMAIN row.lots : GainsOf(row)[k] > 0}

\* more than 365 calendar days lie between the date and today
LongTermDate(date) ==
    /\ ParseDate(date) # <<>>
    /\ CalendarDay(Today) - CalendarDay(date) > 365

\* the tax the configured rates put on each lot's gain taken alone, in
\* thousandths of a dollar
TaxAlone(row) ==
    [k \in DOMAIN row.lots |->
        IF LongTermDate(row.lots[k].date)
        THEN calculate_long_term_tax_on_gains(report.value.config, GainsOf(row)[k]).total
        ELSE calculate_short_term_tax_on_gains(report.value.config, GainsOf(row)[k]).total]

\* C11: the after-tax figure of a symbol is the sum of its lots' gains minus the
\* tax of the lots whose gain is positive, each taxed on its own gain: a lot
\* with zero or negative gain adds its gain as it is and changes no lot's tax.
\* The total taxes are the taxes of the winning lots.
C11_TaxOnlyOnGains ==
    /\ \A i \in DOMAIN PricedRows :
          LET row == PricedRows[i]
          IN  row.after_tax_gain
                = SumFn([k \in DOMAIN row.lots |-> GainsOf(row)[k] * 1000], DOMAIN row.lots)
                  - SumFn(TaxAlone(row), Winners(row))
    /\ PricedRows # <<>>
       => report.value.totals.total_short_term_tax + report.value.totals.total_long_term_tax
            = SumFn([i \in DOMAIN PricedRows |->
                        SumFn(TaxAlone(PricedRows[i]), Winners(PricedRows[i]))],
                    DOMAIN PricedRows)

\* a symbol with a winning and a losing lot, taxed at rates above zero
C11_Witness ==
    \E i \in DOMAIN PricedRows :
        LET row == PricedRows[i]
        IN  /\ Winners(row) # {}
            /\ \E k \in DOMAIN row.lots : GainsOf(row)[k] < 0
            /\ SumFn(TaxAlone(row), Winners(row)) > 0
            /\ row.after_tax_gain < 0

\* C12: a winning lot is taxed at the long-term rate exactly when more than 365
\* days lie between its date and today: the lot of 365 days ago is short-term,
\* the lot of 366 days ago long-term.
C12_LongTermAfter365 ==
    /\ CalendarDay(Today) - CalendarDay(D365) = 365 /\ ~LongTermDate(D365)
    /\ CalendarDay(Today) - CalendarDay(D366) = 366 /\ LongTermDate(D366)
    /\ PricedRows # <<>>
       => /\ report.value.totals.total_long_term_tax
               = SumFn([i \in DOMAIN PricedRows |->
                           SumFn(TaxAlone(PricedRows[i]),
                                 {k \in Winners(PricedRows[i]) :
                                     LongTermDate(PricedRows[i].lots[k].date)})],
                       DOMAIN PricedRows)
          /\ report.value.totals.total_short_term_tax
               = SumFn([i \in DOMAIN PricedRows |->
                           SumFn(TaxAlone(PricedRows[i]),
                                 {k \in Winners(PricedRows[i]) :
                                     ~LongTermDate(PricedRows[i].lots[k].date)})],
                       DOMAIN PricedRows)

\* a winning lot of 365 days and a winning lot of 366 days in one report, with
\* different short-term and long-term rates
C12_Witness ==
    \E i \in DOMAIN PricedRows :
        LET row == PricedRows[i]
        IN  /\ \E k \in Winners(row) : row.lots[k].date = D365
            /\ \E k \in Winners(row) : row.lots[k].date = D366
            /\ report.value.totals.total_long_term_tax > 0
            /\ report.value.totals.total_short_term_tax
                 > report.value.totals.total_long_term_tax

\* C13: with all four keys configured, federal = g * federal_rate / 100 at the
\* rate of the classification, state = g * state_rate / 100, nii = g * 3.8 / 100
\* with the nii flag and 0 without, total = federal + state + nii; gain 1000 at
\* short-term rate 24, state 5, no nii gives 240, 50, 0 and 290.
C13_TaxBreakdown ==
    report.op \in {"calculate_short_term_tax_on_gains", "calculate_long_term_tax_on_gains"}
    => LET g == report.value.gains
           c == report.value.config
           t == report.value.tax
           short == report.op = "calculate_short_term_tax_on_gains"
       IN  DOMAIN c = TaxKeys
           => /\ t.federal * 100
                   = g * 1000 * (IF short THEN c["short_term_federal"]
                                 ELSE c["long_term_federal"])
              /\ t.state * 100 = g * 1000 * c["state"]
              /\ t.nii * 1000 = (IF c["nii"] THEN g * 1000 * 38 ELSE 0)
              /\ t.total = t.federal + t.state + t.nii
              /\ (short /\ g = 1000 /\ c["short_term_federal"] = 24 /\ c["state"] = 5
                  /\ ~c["nii"])
                 => (t.federal = 240 * 1000 /\ t.state = 50 * 1000 /\ t.nii = 0
                     /\ t.total = 290 * 1000)

\* the example of the claim was computed
C13_Witness ==
    /\ report.op = "calculate_short_term_tax_on_gains"
    /\ report.value.gains = 1000
    /\ report.value.config = TaxDict(TaxKeys, 24, 15, 5, FALSE)
    /\ report.value.tax.total = 290 * 1000

\* C17: whatever tax.json holds, tax-show and the tax summary of show_portfolio
\* end without an error raised from the configuration.
C17_ConfigNeverRaises ==
    report.op \in {"tax-show", "port"} => report.raised # "KeyError"

\* the invocations that returned successfully
Done == {p \in Procs : procs[p].pc = "done"}

\* C20: when both invocations have finished, the persisted log holds the
\* transaction of every invocation that returned successfully, as many times as
\* invocations appended it, whatever the order of their loads and saves.
C20_NoLostTransaction ==
    (\A p \in Procs : procs[p].pc \in {"done", "failed"})
    => \A p \in Done :
          Occurrences(CmdTx(procs[p].cmd), Get(file, upper(procs[p].cmd.ticker)))
            >= Cardinality({q \in Done :
                               /\ upper(procs[q].cmd.ticker) = upper(procs[p].cmd.ticker)
                               /\ CmdTx(procs[q].cmd) = CmdTx(procs[p].cmd)})

====
